---------------------------- MODULE Spec2Model ----------------------------
(***************************************************************************)
(* Model of the rail itinerary search engine of Phase1/rail_search.py:     *)
(* time arithmetic, route filter, connection search, dedup and ranking.    *)
(*                                                                         *)
(* Python strings on which the code does character work (strip, lower,     *)
(* title, substring, strptime) are sequences of one-character strings.     *)
(* Route ids and the sort mode, which the code only compares for equality, *)
(* are plain strings.  Times of day are minutes since midnight, 0..1439.   *)
(* Fares are naturals (the code's floats, in whole euros).                 *)
(* An Optional value is a sequence of length 0 (None) or 1.                *)
(***************************************************************************)
EXTENDS Integers, Sequences, FiniteSets, TLC

VARIABLES
    routes,       \* the loaded route collection (List[Route])
    routes0,      \* history: the collection as loaded
    op,           \* the invocation whose result is at hand: "none", "minutes_between",
                  \* "duration", "filter", "find" or "search"
    args,         \* the arguments of the last invocation
    raised,       \* TRUE when the last invocation raised ValueError
    ret,          \* what the invocation returned (a number, a route list or an itinerary list)
    keys          \* the sort keys search_itineraries computed for the returned itineraries

vars == <<routes, routes0, op, args, raised, ret, keys>>

-----------------------------------------------------------------------------
(* Optional values and Python truthiness *)

None == <<>>
Some(v) == <<v>>
IsNone(o) == o = <<>>
Val(o) == o[1]

\* `if s` for an Optional[str]: None and "" are falsy.
TruthyStr(o) == ~IsNone(o) /\ Len(Val(o)) > 0
\* `if days` for an Optional list of tokens: None and [] are falsy.
TruthyList(o) == ~IsNone(o) /\ Len(Val(o)) > 0
\* `if t` for an Optional[datetime.time]: every time object is truthy
\* (Python >= 3.5, which the module's `from __future__ import annotations` implies).
TruthyTime(o) == ~IsNone(o)

-----------------------------------------------------------------------------
(* Character-level string operations *)

LowerLetters == <<"a","b","c","d","e","f","g","h","i","j","k","l","m",
                  "n","o","p","q","r","s","t","u","v","w","x","y","z">>
UpperLetters == <<"A","B","C","D","E","F","G","H","I","J","K","L","M",
                  "N","O","P","Q","R","S","T","U","V","W","X","Y","Z">>
Digits == <<"0","1","2","3","4","5","6","7","8","9">>

Chars == {LowerLetters[i] : i \in 1..26} \cup {UpperLetters[i] : i \in 1..26}
         \cup {Digits[i] : i \in 1..10} \cup {" ", ":", "."}

IsUpperCh(c) == \E i \in 1..26 : UpperLetters[i] = c
IsLowerCh(c) == \E i \in 1..26 : LowerLetters[i] = c
IsAlphaCh(c) == IsUpperCh(c) \/ IsLowerCh(c)
IsSpaceCh(c) == c = " "
IsDigitCh(c) == \E i \in 1..10 : Digits[i] = c
DigitVal(c) == (CHOOSE i \in 1..10 : Digits[i] = c) - 1

\* The case mappings, tabulated once over the characters in use.
LowerTable ==
    [c \in Chars |-> IF IsUpperCh(c)
                     THEN LowerLetters[CHOOSE i \in 1..26 : UpperLetters[i] = c] ELSE c]
UpperTable ==
    [c \in Chars |-> IF IsLowerCh(c)
                     THEN UpperLetters[CHOOSE i \in 1..26 : LowerLetters[i] = c] ELSE c]
LowerCh(c) == LowerTable[c]
UpperCh(c) == UpperTable[c]

\* str.lower()
Lower(s) == [i \in 1..Len(s) |-> LowerCh(s[i])]

\* str.title(): a letter is upper-cased after a non-letter (or at the start), lower-cased after a letter.
Title(s) == [i \in 1..Len(s) |->
               IF i > 1 /\ IsAlphaCh(s[i-1]) THEN LowerCh(s[i]) ELSE UpperCh(s[i])]

\* str.strip(): drop leading and trailing whitespace.
Strip(s) ==
    LET nonsp == {i \in 1..Len(s) : ~IsSpaceCh(s[i])}
    IN  IF nonsp = {} THEN <<>>
        ELSE LET lo == CHOOSE i \in nonsp : \A j \in nonsp : i <= j
                 hi == CHOOSE i \in nonsp : \A j \in nonsp : i >= j
             IN  SubSeq(s, lo, hi)

\* `a in b` on strings: a is a contiguous substring of b.
Contains(b, a) == \E i \in 0..(Len(b) - Len(a)) : SubSeq(b, i + 1, i + Len(a)) = a

-----------------------------------------------------------------------------
(* Time of day *)

MinutesPerDay == 24 * 60

\* The result of a call that may raise: [ok |-> FALSE] models ValueError.
Ok(v) == [ok |-> TRUE, val |-> v]
Raise == [ok |-> FALSE, val |-> 0]

\* The first of two attempts that succeeded, the second when neither did.
FirstOk(a, b) == IF a.ok THEN a ELSE b

\* The number written by one or two digits.
Num(t) == IF Len(t) = 1 THEN DigitVal(t[1]) ELSE 10 * DigitVal(t[1]) + DigitVal(t[2])

\* An hour field h, the text that follows it and the minute field m are a time
\* of the format %H<sep>%M.
FieldsHM(h, rest, sep, m) ==
    IF /\ Len(h) \in {1, 2}
       /\ \A i \in 1..Len(h) : IsDigitCh(h[i])
       /\ Num(h) <= 23
       /\ SubSeq(rest, 1, Len(sep)) = sep
       /\ Len(m) \in {1, 2}
       /\ \A i \in 1..Len(m) : IsDigitCh(m[i])
       /\ Num(m) <= 59
    THEN Ok(60 * Num(h) + Num(m))
    ELSE Raise

\* s read with an hour field of hl characters.
TryHM(s, sep, hl) ==
    IF Len(s) < hl + Len(sep) + 1 THEN Raise
    ELSE FieldsHM(SubSeq(s, 1, hl), SubSeq(s, hl + 1, Len(s)), sep,
                  SubSeq(s, hl + Len(sep) + 1, Len(s)))

\* One strptime attempt of parse_time for the format %H<sep>%M, sep a string of 0 or 1
\* characters.  %H is the regex 2[0-3]|[0-1]\d|\d and %M is [0-5]\d|\d, tried in that
\* order, and the whole string must be consumed: a two-digit hour is preferred.
StrptimeHM(s, sep) == FirstOk(TryHM(s, sep, 2), TryHM(s, sep, 1))

\* The loop of parse_time over its three formats, on the stripped string.
ParseStripped(s) ==
    FirstOk(StrptimeHM(s, <<":">>), FirstOk(StrptimeHM(s, <<".">>), StrptimeHM(s, <<>>)))

parse_time(str) == ParseStripped(Strip(str))

\* minutes_between without the wrap to the next day: the plain difference of the two
\* clock times, negative when t2 is the earlier.
minutes_between_NoWrap(t1, t2) == t2 - t1

\* minutes_between with the wrap taken on `<=`: equal times are a day apart.
minutes_between_WrapOnEqual(t1, t2) ==
    LET d1 == t1
        d2 == IF t2 <= t1 THEN t2 + MinutesPerDay ELSE t2
    IN  d2 - d1

\* minutes_between(t1, t2): if t2 is earlier on the clock, a day is added to it.
minutes_between(t1, t2) ==
    LET d1 == t1
        d2 == IF t2 < t1 THEN t2 + MinutesPerDay ELSE t2
    IN  d2 - d1


-----------------------------------------------------------------------------
(* Data model *)

\* Route.duration_minutes: its own copy of the wrap rule.
Route_duration_minutes(self) ==
    LET dt_dep == self.dep_time
        dt_arr == IF self.arr_time < self.dep_time
                  THEN self.arr_time + MinutesPerDay ELSE self.arr_time
    IN  dt_arr - dt_dep

\* Leg is a reference to one Route: a leg is modelled by its route.
Leg_duration_minutes(leg) == Route_duration_minutes(leg)

Itinerary(legs, transfers) == [legs |-> legs, transfers_minutes |-> transfers]

RECURSIVE SumSeq(_)
SumSeq(s) == IF s = <<>> THEN 0 ELSE Head(s) + SumSeq(Tail(s))

\* The total without the transfers.
Itinerary_duration_minutes_LegsOnly(it) ==
    SumSeq([i \in 1..Len(it.legs) |-> Leg_duration_minutes(it.legs[i])])

\* Itinerary.duration_minutes: leg durations plus transfers.
Itinerary_duration_minutes(it) ==
    SumSeq([i \in 1..Len(it.legs) |-> Leg_duration_minutes(it.legs[i])])
        + SumSeq(it.transfers_minutes)

s_first == <<"f","i","r","s","t">>
s_second == <<"s","e","c","o","n","d">>

\* Itinerary.price(cls): first-class fares when cls.lower() == "first", second-class otherwise.
Itinerary_price(it, cls) ==
    IF Lower(cls) = s_first
    THEN SumSeq([i \in 1..Len(it.legs) |-> it.legs[i].price_first])
    ELSE SumSeq([i \in 1..Len(it.legs) |-> it.legs[i].price_second])

Itinerary_num_stops(it) == IF Len(it.legs) - 1 > 0 THEN Len(it.legs) - 1 ELSE 0

\* The route-id tuple of an itinerary (the dedup key).
RouteIds(it) == [i \in 1..Len(it.legs) |-> it.legs[i].route_id]

-----------------------------------------------------------------------------
(* Day tokens *)

d_Mon == <<"M","o","n">>
d_Tue == <<"T","u","e">>
d_Wed == <<"W","e","d">>
d_Thu == <<"T","h","u">>
d_Fri == <<"F","r","i">>
d_Sat == <<"S","a","t">>
d_Sun == <<"S","u","n">>

\* DAY_ALIASES as a set of <<key, canonical code>> pairs.
DAY_ALIASES ==
    { <<Lower(d_Mon), d_Mon>>, <<<<"m","o","n","d","a","y">>, d_Mon>>,
      <<Lower(d_Tue), d_Tue>>, <<<<"t","u","e","s","d","a","y">>, d_Tue>>,
      <<Lower(d_Wed), d_Wed>>, <<<<"w","e","d","n","e","s","d","a","y">>, d_Wed>>,
      <<Lower(d_Thu), d_Thu>>, <<<<"t","h","u","r","s","d","a","y">>, d_Thu>>,
      <<Lower(d_Fri), d_Fri>>, <<<<"f","r","i","d","a","y">>, d_Fri>>,
      <<Lower(d_Sat), d_Sat>>, <<<<"s","a","t","u","r","d","a","y">>, d_Sat>>,
      <<Lower(d_Sun), d_Sun>>, <<<<"s","u","n","d","a","y">>, d_Sun>> }

IsDayAlias(key) == \E p \in DAY_ALIASES : p[1] = key

\* DAY_ALIASES.get(key, default)
DayAliasGet(key, default) ==
    IF IsDayAlias(key) THEN (CHOOSE p \in DAY_ALIASES : p[1] = key)[2] ELSE default

\* The day code filter_routes makes of one requested token: never an error.
NormDayToken(d) == DayAliasGet(Lower(Strip(d)), Title(Strip(d)))

-----------------------------------------------------------------------------
(* Route filter *)

\* The keyword constraints of filter_routes, all defaulting to None.
NoKw == [dep_city |-> None, arr_city |-> None, train_type |-> None, days |-> None,
         dep_time_from |-> None, dep_time_to |-> None,
         arr_time_from |-> None, arr_time_to |-> None,
         max_price_first |-> None, max_price_second |-> None]

\* The Optional time of a parse that succeeded; the error of one that did not.
SomeTime(p) == IF p.ok THEN Ok(Some(p.val)) ELSE Raise

\* The Optional time of a parse that succeeded; None for one that did not.
SomeTime_Lenient(p) == IF p.ok THEN Ok(Some(p.val)) ELSE Ok(None)

\* A bound that does not parse is taken as absent instead of raising.
ParseOpt_Lenient(x) == IF TruthyStr(x) THEN SomeTime_Lenient(parse_time(Val(x))) ELSE Ok(None)

\* `parse_time(x) if x else None`: Ok(None), Ok(Some(t)) or Raise.
ParseOpt(x) == IF TruthyStr(x) THEN SomeTime(parse_time(Val(x))) ELSE Ok(None)

\* The window test as a plain comparison of clock times.
WindowKeeps_Naive(from, to, t) == from <= t /\ t <= to

\* The window test of lines 210-219 (departure) and 223-228 (arrival): the route's
\* time t is kept when its distance from `from` is within that of `to`.
WindowKeeps(from, to, t) ==
    LET dmin == minutes_between(from, t)
        dmax == minutes_between(from, to)
    IN  IF dmax >= 0 THEN 0 <= dmin /\ dmin <= dmax ELSE TRUE

\* The body of the loop of filter_routes for one route r, given the normalised
\* constraints c: TRUE when r is appended to out.
FilterKeeps(r, c) ==
    /\ ~(TruthyStr(c.dep_city_norm) /\ ~Contains(Lower(r.dep_city), Val(c.dep_city_norm)))
    /\ ~(TruthyStr(c.arr_city_norm) /\ ~Contains(Lower(r.arr_city), Val(c.arr_city_norm)))
    /\ ~(TruthyStr(c.train_type_norm) /\ ~Contains(Lower(r.train_type), Val(c.train_type_norm)))
    /\ ~(~IsNone(c.day_set) /\ Val(c.day_set) # {} /\ (r.days \cap Val(c.day_set)) = {})
    \* lines 205-209: a `pass`, then a `continue` on a negative distance
    /\ ~(TruthyTime(c.dtf) /\ minutes_between(Val(c.dtf), r.dep_time) < 0)
    /\ IF TruthyTime(c.dtf) /\ TruthyTime(c.dtt)
       THEN WindowKeeps(Val(c.dtf), Val(c.dtt), r.dep_time)
       ELSE ~(TruthyTime(c.dtf) /\ minutes_between(Val(c.dtf), r.dep_time) < 0)
    /\ IF TruthyTime(c.atf) /\ TruthyTime(c.att)
       THEN WindowKeeps(Val(c.atf), Val(c.att), r.arr_time)
       ELSE TRUE
    /\ ~(~IsNone(c.max_price_first) /\ r.price_first > Val(c.max_price_first))
    /\ ~(~IsNone(c.max_price_second) /\ r.price_second > Val(c.max_price_second))

\* The normalised constraints of lines 185-193, the four bounds being parsed already.
Normalised(kw, dtf, dtt, atf, att) ==
    [dep_city_norm |-> IF TruthyStr(kw.dep_city) THEN Some(Lower(Val(kw.dep_city))) ELSE None,
     arr_city_norm |-> IF TruthyStr(kw.arr_city) THEN Some(Lower(Val(kw.arr_city))) ELSE None,
     train_type_norm |-> IF TruthyStr(kw.train_type)
                         THEN Some(Lower(Val(kw.train_type))) ELSE None,
     day_set |-> IF TruthyList(kw.days)
                 THEN Some({NormDayToken(Val(kw.days)[i]) : i \in 1..Len(Val(kw.days))})
                 ELSE None,
     dtf |-> dtf.val, dtt |-> dtt.val, atf |-> atf.val, att |-> att.val,
     max_price_first |-> kw.max_price_first,
     max_price_second |-> kw.max_price_second]

\* The loop of lines 195-235 under the normalised constraints c.
FilterLoop(rs, c) == SelectSeq(rs, LAMBDA r : FilterKeeps(r, c))

\* filter_routes once its four bounds went through parse_time: an unparseable one
\* raised before any route was looked at.
FilterParsed(rs, kw, dtf, dtt, atf, att) ==
    IF ~(dtf.ok /\ dtt.ok /\ atf.ok /\ att.ok)
    THEN [raised |-> TRUE, out |-> <<>>]
    ELSE [raised |-> FALSE, out |-> FilterLoop(rs, Normalised(kw, dtf, dtt, atf, att))]

\* filter_routes(routes, **kw): [raised, out].
filter_routes(rs, kw) ==
    FilterParsed(rs, kw, ParseOpt(kw.dep_time_from), ParseOpt(kw.dep_time_to),
                 ParseOpt(kw.arr_time_from), ParseOpt(kw.arr_time_to))

\* What is left of the collection when the routes the filter drops are removed from it.
KeptInPlace(rs, f) == IF f.raised THEN rs ELSE f.out

\* The filter done in place: the routes it drops are removed from the collection.
filter_routes_leaves_InPlace(rs, kw) == KeptInPlace(rs, filter_routes(rs, kw))

\* The route collection after filter_routes has run over it: the loop only reads
\* `routes` and appends to a fresh list `out`.
filter_routes_leaves(rs, kw) == rs

\* One single-leg itinerary per route of a filter result.
DirectOf(f) == [raised |-> f.raised, out |-> [i \in 1..Len(f.out) |-> Itinerary(<<f.out[i]>>, <<>>)]]

\* find_direct_itineraries: one single-leg itinerary per filtered route.
find_direct_itineraries(rs, dep_city, arr_city, kw) ==
    DirectOf(filter_routes(rs, [kw EXCEPT !.dep_city = dep_city, !.arr_city = arr_city]))

-----------------------------------------------------------------------------
(* Connection search *)

RECURSIVE Flatten(_)
\* The concatenation of a sequence of sequences: what nested loops append, in order.
Flatten(ss) == IF ss = <<>> THEN <<>> ELSE Head(ss) \o Flatten(Tail(ss))

\* The adjacency index: lower-cased departure city -> routes departing it, in list order.
BuildIndex(filtered) ==
    [c \in {Lower(filtered[i].dep_city) : i \in 1..Len(filtered)} |->
        SelectSeq(filtered, LAMBDA r : Lower(r.dep_city) = c)]

\* The lookup without lower-casing the city asked for.
routes_from_city_CaseSensitive(routes_by_dep, city) ==
    IF city \in DOMAIN routes_by_dep THEN routes_by_dep[city] ELSE <<>>

\* routes_by_dep.get(city.lower(), [])
routes_from_city(routes_by_dep, city) ==
    IF Lower(city) \in DOMAIN routes_by_dep THEN routes_by_dep[Lower(city)] ELSE <<>>

\* The direct loop passing over a route that arrives in the city it departs from.
DirectBody_NoLoop(r, arr_city) ==
    IF Lower(r.arr_city) = Lower(arr_city) /\ Lower(r.dep_city) # Lower(r.arr_city)
    THEN <<Itinerary(<<r>>, <<>>)>> ELSE <<>>

\* Lines 270-271 for one route r of the origin.
DirectBody(r, arr_city) ==
    IF Lower(r.arr_city) = Lower(arr_city) THEN <<Itinerary(<<r>>, <<>>)>> ELSE <<>>

\* The direct loop (lines 269-271) over the routes R1 of the origin.
DirectLoop(R1, arr_city) == Flatten([i \in 1..Len(R1) |-> DirectBody(R1[i], arr_city)])

EnumDirect(idx, dep_city, arr_city) == DirectLoop(routes_from_city(idx, dep_city), arr_city)

\* The transfer test turned around: a connection longer than min_transfer is rejected.
TransferRejected_Above(transfer, min_transfer) == transfer > min_transfer

\* The transfer test left out: every connection is taken.
TransferRejected_Never(transfer, min_transfer) == FALSE

\* The transfer test of both loops: `if transfer < min_transfer: continue`.
TransferRejected(transfer, min_transfer) == transfer < min_transfer

\* Lines 277-288 for one pair r1, r2 and its transfer.
OneStopBody(r1, r2, transfer, arr_city, min_transfer) ==
    IF Lower(r2.arr_city) # Lower(arr_city) THEN <<>>
    ELSE IF TransferRejected(transfer, min_transfer) THEN <<>>
    ELSE <<Itinerary(<<r1, r2>>, <<transfer>>)>>

\* The inner loop of lines 276-288 over the routes R2 leaving r1's arrival city.
OneStopInner(r1, R2, arr_city, min_transfer) ==
    Flatten([j \in 1..Len(R2) |->
        OneStopBody(r1, R2[j], minutes_between(r1.arr_time, R2[j].dep_time),
                    arr_city, min_transfer)])

\* The outer loop with the second route looked up under the first route's departure
\* city instead of its arrival city.
OneStopOuter_FromDeparture(idx, R1, arr_city, min_transfer) ==
    Flatten([i \in 1..Len(R1) |->
        OneStopInner(R1[i], routes_from_city(idx, R1[i].dep_city), arr_city, min_transfer)])

\* The outer loop of lines 275-288 over the routes R1 of the origin.
OneStopOuter(idx, R1, arr_city, min_transfer) ==
    Flatten([i \in 1..Len(R1) |->
        OneStopInner(R1[i], routes_from_city(idx, R1[i].arr_city), arr_city, min_transfer)])

\* The one-stop loops (lines 275-288).
EnumOneStop(idx, dep_city, arr_city, min_transfer) ==
    OneStopOuter(idx, routes_from_city(idx, dep_city), arr_city, min_transfer)

\* Lines 298-303 for one triple and its transfers.
TwoStopBody(r1, r2, r3, transfer1, transfer2, arr_city, min_transfer) ==
    IF Lower(r3.arr_city) # Lower(arr_city) THEN <<>>
    ELSE IF TransferRejected(transfer2, min_transfer) THEN <<>>
    ELSE <<Itinerary(<<r1, r2, r3>>, <<transfer1, transfer2>>)>>

\* The loop of lines 297-303 over the routes R3 leaving r2's arrival city.
TwoStopInner(r1, r2, transfer1, R3, arr_city, min_transfer) ==
    Flatten([k \in 1..Len(R3) |->
        TwoStopBody(r1, r2, R3[k], transfer1, minutes_between(r2.arr_time, R3[k].dep_time),
                    arr_city, min_transfer)])

\* Lines 294-303 for one pair r1, r2: the first transfer is tested before the third loop.
TwoStopMiddleBody(idx, r1, r2, transfer1, arr_city, min_transfer) ==
    IF TransferRejected(transfer1, min_transfer) THEN <<>>
    ELSE TwoStopInner(r1, r2, transfer1, routes_from_city(idx, r2.arr_city),
                      arr_city, min_transfer)

\* The loop of lines 293-303 over the routes R2 leaving r1's arrival city.
TwoStopMiddle(idx, r1, R2, arr_city, min_transfer) ==
    Flatten([j \in 1..Len(R2) |->
        TwoStopMiddleBody(idx, r1, R2[j], minutes_between(r1.arr_time, R2[j].dep_time),
                          arr_city, min_transfer)])

\* The outer loop of lines 292-303 over the routes R1 of the origin.
TwoStopOuter(idx, R1, arr_city, min_transfer) ==
    Flatten([i \in 1..Len(R1) |->
        TwoStopMiddle(idx, R1[i], routes_from_city(idx, R1[i].arr_city),
                      arr_city, min_transfer)])

\* The two-stop loops (lines 292-303).
EnumTwoStop(idx, dep_city, arr_city, min_transfer) ==
    TwoStopOuter(idx, routes_from_city(idx, dep_city), arr_city, min_transfer)

\* The three passes over the adjacency index idx: direct, then one-stop, then two-stop.
EnumerateIndexed(idx, dep_city, arr_city, max_stops, min_transfer) ==
    EnumDirect(idx, dep_city, arr_city)
        \o (IF max_stops >= 1 THEN EnumOneStop(idx, dep_city, arr_city, min_transfer) ELSE <<>>)
        \o (IF max_stops >= 2 THEN EnumTwoStop(idx, dep_city, arr_city, min_transfer) ELSE <<>>)

\* `results` before deduplication.
Enumerate(filtered, dep_city, arr_city, max_stops, min_transfer) ==
    EnumerateIndexed(BuildIndex(filtered), dep_city, arr_city, max_stops, min_transfer)

\* Deduplication that keeps the last itinerary of each route-id tuple.
Dedup_LastWins(results) ==
    LET keep == {i \in 1..Len(results) :
                    \A j \in (i + 1)..Len(results) : RouteIds(results[j]) # RouteIds(results[i])}
        Nth(n) == CHOOSE i \in keep : Cardinality({j \in keep : j <= i}) = n
    IN  [n \in 1..Cardinality(keep) |-> results[Nth(n)]]

\* Lines 306-312: keep an itinerary when its route-id tuple was not seen before.
Dedup(results) ==
    LET keep == {i \in 1..Len(results) :
                    \A j \in 1..(i - 1) : RouteIds(results[j]) # RouteIds(results[i])}
        Nth(n) == CHOOSE i \in keep : Cardinality({j \in keep : j <= i}) = n
    IN  [n \in 1..Cardinality(keep) |-> results[Nth(n)]]

\* The search over a filter result f: the error goes through, the routes are enumerated.
FindIn(f, dep_city, arr_city, max_stops, min_transfer) ==
    IF f.raised THEN [raised |-> TRUE, out |-> <<>>]
    ELSE [raised |-> FALSE,
          out |-> Dedup(Enumerate(f.out, dep_city, arr_city, max_stops, min_transfer))]

\* find_connected_itineraries(routes, dep_city, arr_city, max_stops, min_transfer, **kw)
find_connected_itineraries(rs, dep_city, arr_city, max_stops, min_transfer, kw) ==
    FindIn(filter_routes(rs, kw), dep_city, arr_city, max_stops, min_transfer)

-----------------------------------------------------------------------------
(* Ranking *)

\* Tuple comparison of the sort keys: (a1, a2) <= (b1, b2).
KeyLeq(a, b) == a[1] < b[1] \/ (a[1] = b[1] /\ a[2] <= b[2])

\* The sort key with the mode ignored: always (duration, fare).
SortKey_IgnoresMode(it, cls, sort_by) ==
    <<Itinerary_duration_minutes(it), Itinerary_price(it, cls)>>

\* The key of list.sort in search_itineraries (lines 357-360).
SortKey(it, cls, sort_by) ==
    IF sort_by = "price"
    THEN <<Itinerary_price(it, cls), Itinerary_duration_minutes(it)>>
    ELSE <<Itinerary_duration_minutes(it), Itinerary_price(it, cls)>>

\* x put into the sorted list pre after every element whose key is <= its own.
InsertSorted(pre, x, cls, sort_by) ==
    LET kx == SortKey(x, cls, sort_by)
        upto == Cardinality({i \in 1..Len(pre) : KeyLeq(SortKey(pre[i], cls, sort_by), kx)})
    IN  SubSeq(pre, 1, upto) \o <<x>> \o SubSeq(pre, upto + 1, Len(pre))

RECURSIVE SortedBy(_, _, _)
\* list.sort(key=...): stable, ascending.  Inserting the last element after every
\* element whose key is <= its own keeps equal keys in their original order.
SortedBy(its, cls, sort_by) ==
    IF its = <<>> THEN <<>>
    ELSE InsertSorted(SortedBy(SubSeq(its, 1, Len(its) - 1), cls, sort_by),
                      its[Len(its)], cls, sort_by)

\* The cut guarded by `if limit:` in place of `if limit is not None:`: a cap of 0 is
\* taken for no cap.
Limited_Truthy(its, limit) ==
    IF IsNone(limit) \/ Val(limit) = 0 THEN its
    ELSE IF Val(limit) >= 0
         THEN SubSeq(its, 1, IF Val(limit) < Len(its) THEN Val(limit) ELSE Len(its))
         ELSE SubSeq(its, 1, Len(its) + Val(limit))

\* itineraries[:limit] for an Optional[int] limit; a negative limit counts from the end.
Limited(its, limit) ==
    IF IsNone(limit) THEN its
    ELSE IF Val(limit) >= 0
         THEN SubSeq(its, 1, IF Val(limit) < Len(its) THEN Val(limit) ELSE Len(its))
         ELSE SubSeq(its, 1, Len(its) + Val(limit))

\* `x or ""` for an Optional[str]
OrEmpty(o) == IF TruthyStr(o) THEN Val(o) ELSE <<>>

\* Lines 357-364 on what the connection search found: sorted, then cut to the limit,
\* with the key each returned itinerary was sorted by.
RankFound(raisedF, out, cls, sort_by) ==
    IF raisedF THEN [raised |-> TRUE, out |-> <<>>, keys |-> <<>>]
    ELSE [raised |-> FALSE, out |-> out,
          keys |-> [i \in 1..Len(out) |-> SortKey(out[i], cls, sort_by)]]

SearchOf(found, cls, sort_by, limit) ==
    RankFound(found.raised, Limited(SortedBy(found.out, cls, sort_by), limit), cls, sort_by)

\* search_itineraries, after load_routes has produced rs.
search_itineraries(rs, dep_city, arr_city, kw, cls, max_stops, min_transfer, sort_by, limit) ==
    SearchOf(find_connected_itineraries(rs, OrEmpty(dep_city), OrEmpty(arr_city),
                                        max_stops, min_transfer, kw),
             cls, sort_by, limit)

-----------------------------------------------------------------------------
(* Inputs *)

s_Paris == <<"P","a","r","i","s">>
s_PARIS == <<"P","A","R","I","S">>
s_paris == <<"p","a","r","i","s">>
s_Lyon  == <<"L","y","o","n">>
s_LYON  == <<"L","Y","O","N">>
s_Metz  == <<"M","e","t","z">>
s_metz  == <<"m","e","t","z">>
s_Nice  == <<"N","i","c","e">>
s_NICE  == <<"N","I","C","E">>
s_TGV   == <<"T","G","V">>
s_ICE   == <<"I","C","E">>
s_Night == <<"N","i","g","h","t">>
d_Fun   == <<"F","u","n">>

Route(route_id, dep_city, arr_city, dep_time, arr_time, train_type, days, price_first, price_second) ==
    [route_id |-> route_id, dep_city |-> dep_city, arr_city |-> arr_city,
     dep_time |-> dep_time, arr_time |-> arr_time, train_type |-> train_type,
     days |-> days, price_first |-> price_first, price_second |-> price_second]

HM(h, m) == 60 * h + m

\* The rows a collection is drawn from.  Paris->Lyon->Nice is the two-route chain of the
\* scenarios (transfer 30, total 300); the night train Metz->paris arrives the next
\* morning, after the trains it connects to have left on the clock (transfers 1350
\* and 1410); the two direct rows share the route id R5 and differ in duration and
\* fares.  City names differ in case between the rows that chain.
RoutePool ==
    << Route("R1", s_Paris, s_Lyon,  HM(8, 0),   HM(10, 0),  s_TGV,   {d_Mon, d_Tue}, 50, 30),
       Route("R2", s_LYON,  s_Nice,  HM(10, 30), HM(13, 0),  s_ICE,   {d_Mon},        40, 25),
       Route("R3", s_Metz,  s_paris, HM(23, 0),  HM(9, 30),  s_Night, {d_Tue, d_Fun}, 20, 10),
       Route("R5", s_Paris, s_Nice,  HM(9, 0),   HM(14, 30), s_TGV,   {},             95, 50),
       Route("R5", s_paris, s_Nice,  HM(9, 0),   HM(14, 0),  s_ICE,   {d_Tue},        80, 60) >>

\* The longest collection.
MaxRoutes == 3

\* Every list of at most MaxRoutes rows of the pool, repeated rows included.
Collections ==
    UNION {[1..n -> {RoutePool[i] : i \in 1..Len(RoutePool)}] : n \in 0..MaxRoutes}

Origins == {s_PARIS, s_metz}
Destinations == {s_NICE}
MaxStopsChoices == {0, 1, 2}
\* The default minimum transfer, the transfer of the scenarios exactly, and one above it.
MinTransfers == {10, 30, 45}

\* Time-window bounds as the caller types them.
b_0800  == <<"0","8",":","0","0">>
b_1010  == <<"1","0",".","1","0">>
b_2200  == <<"2","2",":","0","0">>
b_900   == <<"9","0","0">>
b_2300p == <<" ","2","3",":","0","0"," ">>
b_0930  == <<"0","9","3","0">>
b_2500  == <<"2","5",":","0","0">>
b_noon  == <<"n","o","o","n">>
b_empty == <<>>

\* Day tokens as the caller types them.
t_mon     == <<" ","m","o","n"," ">>
t_TUESDAY == <<"T","U","E","S","D","A","Y">>
t_fun     == <<"f","u","n">>
t_funday  == <<"f","u","n","d","a","y">>

\* Constraint sets for the connection search (dep_city and arr_city are its own
\* parameters, never keywords of the filter there): none, a day token that is no
\* alias, a departure window across midnight, an arrival window with a bad bound.
SearchKwPool ==
    { NoKw,
      [NoKw EXCEPT !.days = Some(<<t_funday>>)],
      [NoKw EXCEPT !.dep_time_from = Some(b_2200), !.dep_time_to = Some(b_1010)],
      [NoKw EXCEPT !.arr_time_from = Some(b_0800), !.arr_time_to = Some(b_2500)] }

\* Constraint sets for filter_routes called on its own.
FilterKwPool ==
    SearchKwPool \cup
    { [NoKw EXCEPT !.dep_city = Some(<<"P","A","R">>)],
      [NoKw EXCEPT !.arr_city = Some(<<"i","c">>), !.train_type = Some(<<"t","g">>)],
      [NoKw EXCEPT !.dep_city = Some(<<>>), !.days = Some(<<>>)],
      [NoKw EXCEPT !.days = Some(<<t_mon, t_TUESDAY>>)],
      [NoKw EXCEPT !.days = Some(<<t_fun>>)],
      [NoKw EXCEPT !.days = Some(<<t_funday>>), !.dep_time_from = Some(b_noon)],
      [NoKw EXCEPT !.dep_time_from = Some(b_0800), !.dep_time_to = Some(b_900)],
      [NoKw EXCEPT !.dep_time_from = Some(b_900)],
      [NoKw EXCEPT !.dep_time_to = Some(b_900)],
      [NoKw EXCEPT !.dep_time_from = Some(b_empty), !.dep_time_to = Some(b_900)],
      [NoKw EXCEPT !.dep_time_from = Some(b_noon)],
      [NoKw EXCEPT !.dep_time_to = Some(b_2500)],
      [NoKw EXCEPT !.arr_time_from = Some(b_2300p), !.arr_time_to = Some(b_0930)],
      [NoKw EXCEPT !.arr_time_from = Some(b_0930), !.arr_time_to = Some(b_2300p)],
      [NoKw EXCEPT !.arr_time_from = Some(b_2200)],
      [NoKw EXCEPT !.arr_time_to = Some(b_2200)],
      [NoKw EXCEPT !.max_price_first = Some(50)],
      [NoKw EXCEPT !.max_price_second = Some(25), !.train_type = Some(s_ICE)] }

\* What search_itineraries is called with by the command line: an origin the user may
\* omit, the default minimum transfer, and constraint sets that parse or do not.
SearchOrigins == {Some(s_PARIS), None}
SearchDestinations == {Some(s_NICE)}
SearchMaxStops == {0, 2}
SearchMinTransfers == {10}
RankKwPool ==
    { NoKw, [NoKw EXCEPT !.arr_time_from = Some(b_0800), !.arr_time_to = Some(b_2500)] }

Classes == {s_first, <<"S","e","c","o","n","d">>}
SortModes == {"duration", "price"}
\* No cap, a cap of nothing, a cap below the number of results, the default cap.
Limits == {None, Some(0), Some(1), Some(50)}

\* Times of day for the time arithmetic: every hour, at four minutes of the hour.
TimeSamples == {HM(h, m) : h \in 0..23, m \in {0, 1, 30, 59}}

NoArgs == [dep_city |-> None, arr_city |-> None, max_stops |-> 0, min_transfer |-> 0,
           kw |-> NoKw, cls |-> s_second, sort_by |-> "duration", limit |-> None,
           t1 |-> 0, t2 |-> 0]

-----------------------------------------------------------------------------
(* The state machine: a collection is loaded once, then any of the entry points *)
(* is invoked any number of times on it.                                       *)

Loaded(rs) ==
    /\ routes = rs
    /\ routes0 = rs
    /\ op = "none"
    /\ args = NoArgs
    /\ raised = FALSE
    /\ ret = <<>>
    /\ keys = <<>>

Init == \E rs \in Collections : Loaded(rs)

\* The invocation o with arguments a returned (or raised) f and left the collection rs.
Returns(o, a, f, ks, rs) ==
    /\ op' = o
    /\ args' = a
    /\ raised' = f.raised
    /\ ret' = f.out
    /\ keys' = ks
    /\ routes' = rs
    /\ UNCHANGED routes0

\* filter_routes(routes, **kw)
FilterRoutes ==
    /\ op = "none"
    /\ \E kw \in FilterKwPool :
          Returns("filter", [NoArgs EXCEPT !.kw = kw], filter_routes(routes, kw), <<>>,
                  filter_routes_leaves(routes, kw))

\* find_connected_itineraries(routes, dep_city, arr_city, max_stops, min_transfer, **kw)
FindConnected ==
    /\ op = "none"
    /\ \E dep \in Origins, arr \in Destinations, ms \in MaxStopsChoices,
          mt \in MinTransfers, kw \in SearchKwPool :
          Returns("find",
                  [NoArgs EXCEPT !.dep_city = Some(dep), !.arr_city = Some(arr),
                                 !.max_stops = ms, !.min_transfer = mt, !.kw = kw],
                  find_connected_itineraries(routes, dep, arr, ms, mt, kw), <<>>,
                  filter_routes_leaves(routes, kw))

\* The keys of a search result.
KeysOf(f) == f.keys

\* What search_itineraries returned, and the keys it sorted by.
SearchReturns(a, f, rs) == Returns("search", a, f, KeysOf(f), rs)

\* search_itineraries(csv_path, ...), the collection being what load_routes returns.
SearchItineraries ==
    /\ op = "none"
    /\ \E dep \in SearchOrigins, arr \in SearchDestinations, ms \in SearchMaxStops,
          mt \in SearchMinTransfers, kw \in RankKwPool, cls \in Classes,
          sort_by \in SortModes, limit \in Limits :
          SearchReturns([NoArgs EXCEPT !.dep_city = dep, !.arr_city = arr,
                                       !.max_stops = ms, !.min_transfer = mt, !.kw = kw,
                                       !.cls = cls, !.sort_by = sort_by, !.limit = limit],
                        search_itineraries(routes, dep, arr, kw, cls, ms, mt, sort_by, limit),
                        filter_routes_leaves(routes, kw))

\* The caller takes the result (or the error) of the invocation; the engine keeps
\* nothing of it, and the next invocation starts from the collection alone.
Consume ==
    /\ op # "none"
    /\ op' = "none"
    /\ args' = NoArgs
    /\ raised' = FALSE
    /\ ret' = <<>>
    /\ keys' = <<>>
    /\ UNCHANGED <<routes, routes0>>

Next == FilterRoutes \/ FindConnected \/ SearchItineraries \/ Consume

Spec == Init /\ [][Next]_vars

-----------------------------------------------------------------------------
(* The time arithmetic on its own: the two functions applied to sampled times. *)

\* minutes_between(t1, t2)
MinutesBetweenCall ==
    /\ op = "none"
    /\ \E t1 \in TimeSamples, t2 \in TimeSamples :
        /\ op' = "minutes_between"
        /\ args' = [NoArgs EXCEPT !.t1 = t1, !.t2 = t2]
        /\ ret' = minutes_between(t1, t2)
        /\ UNCHANGED <<routes, routes0, raised, keys>>

\* Route(...).duration_minutes for a route departing at t1 and arriving at t2
DurationCall ==
    /\ op = "none"
    /\ \E t1 \in TimeSamples, t2 \in TimeSamples :
        /\ op' = "duration"
        /\ args' = [NoArgs EXCEPT !.t1 = t1, !.t2 = t2]
        /\ ret' = Route_duration_minutes(Route("R1", s_Paris, s_Lyon, t1, t2, s_TGV, {}, 0, 0))
        /\ UNCHANGED <<routes, routes0, raised, keys>>

NextTime == MinutesBetweenCall \/ DurationCall \/ Consume

SpecTime == Loaded(<<>>) /\ [][NextTime]_vars

-----------------------------------------------------------------------------
(* The connection search on a second timetable: every connection on the way from *)
(* Metz to Nice waits overnight, and a circular service leaves and ends in Nice. *)

s_Circ == <<"C","i","r","c">>

\* N1 arrives in Paris at 09:30, after N2 has left at 08:00 (transfer 1350); N2
\* arrives in Lyon at 10:00, after N3 has left at 09:00 (transfer 1380); N4 departs
\* from and arrives in Nice, 30 minutes after N3 gets there.
NightPool ==
    << Route("N1", s_Metz,  s_paris, HM(23, 0), HM(9, 30),  s_Night, {d_Tue}, 20, 10),
       Route("N2", s_Paris, s_Lyon,  HM(8, 0),  HM(10, 0),  s_TGV,   {d_Mon}, 50, 30),
       Route("N3", s_LYON,  s_Nice,  HM(9, 0),  HM(11, 30), s_ICE,   {d_Mon}, 40, 25),
       Route("N4", s_Nice,  s_NICE,  HM(12, 0), HM(12, 40), s_Circ,  {},      5,  3) >>

\* Every list of at most MaxRoutes rows of the second timetable.
NightCollections ==
    UNION {[1..n -> {NightPool[i] : i \in 1..Len(NightPool)}] : n \in 0..MaxRoutes}

NightOrigins == {s_metz, s_PARIS, s_LYON, s_NICE}
\* The default minimum transfer and one between the two overnight waits.
NightMinTransfers == {10, 1360}
\* No constraint, and a departure window across midnight that has every train but
\* the circular one.
NightKwPool ==
    { NoKw, [NoKw EXCEPT !.dep_time_from = Some(b_2200), !.dep_time_to = Some(b_1010)] }

InitNight == \E rs \in NightCollections : Loaded(rs)

\* find_connected_itineraries(routes, dep_city, "NICE", max_stops, min_transfer, **kw)
FindConnectedNight ==
    /\ op = "none"
    /\ \E dep \in NightOrigins, ms \in MaxStopsChoices, mt \in NightMinTransfers,
          kw \in NightKwPool :
          Returns("find",
                  [NoArgs EXCEPT !.dep_city = Some(dep), !.arr_city = Some(s_NICE),
                                 !.max_stops = ms, !.min_transfer = mt, !.kw = kw],
                  find_connected_itineraries(routes, dep, s_NICE, ms, mt, kw), <<>>,
                  filter_routes_leaves(routes, kw))

NextNight == FindConnectedNight \/ Consume

SpecNight == InitNight /\ [][NextNight]_vars

-----------------------------------------------------------------------------
(* Properties *)

\* The invocation at hand returned normally from find_connected_itineraries.
Found == op = "find" /\ ~raised
\* The invocation at hand returned normally from search_itineraries.
Searched == op = "search" /\ ~raised
\* The invocation at hand returned normally from filter_routes.
Filtered == op = "filter" /\ ~raised

\* The forward distance on the clock from a to b, by modular arithmetic.
Arc(a, b) == (b - a) % 1440

\* C1: in every itinerary find_connected_itineraries returns, each recorded transfer
\* is the forward clock distance from a leg's arrival to the next leg's departure,
\* there is one transfer per pair of consecutive legs, and no transfer is below
\* min_transfer; the chain R1, R2 (transfer 30) yields nothing at min_transfer 45.
C1_TransfersFeasible ==
    Found =>
        /\ \A n \in 1..Len(ret) :
            LET it == ret[n]
            IN  /\ Len(it.transfers_minutes) = Len(it.legs) - 1
                /\ \A i \in 1..(Len(it.legs) - 1) :
                    /\ it.transfers_minutes[i]
                         = minutes_between(it.legs[i].arr_time, it.legs[i+1].dep_time)
                    /\ it.transfers_minutes[i] = Arc(it.legs[i].arr_time, it.legs[i+1].dep_time)
                    /\ it.transfers_minutes[i] >= args.min_transfer
        /\ (routes = <<RoutePool[1], RoutePool[2]>> /\ args.min_transfer = 45) => ret = <<>>

\* C1 witness: a two-stop itinerary whose second transfer equals min_transfer, returned.
C1_Witness ==
    /\ Found
    /\ args.min_transfer = 30
    /\ \E n \in 1..Len(ret) : ret[n].transfers_minutes = <<1350, 30>>

\* C1 witness of the rejection: the scenario's chain is loaded, asked for with
\* min_transfer 45 and one stop, and nothing comes back.
C1_WitnessRejected ==
    /\ Found
    /\ routes = <<RoutePool[1], RoutePool[2]>>
    /\ args.min_transfer = 45 /\ args.max_stops = 1 /\ args.kw = NoKw
    /\ args.dep_city = Some(s_PARIS)
    /\ ret = <<>>

\* The first position in a list of itineraries that carries the route-id tuple ids.
FirstWith(results, ids) ==
    CHOOSE i \in 1..Len(results) :
        /\ RouteIds(results[i]) = ids
        /\ \A j \in 1..(i - 1) : RouteIds(results[j]) # ids

\* What the loops enumerated for the invocation at hand, before deduplication.
Enumerated ==
    Enumerate(filter_routes(routes0, args.kw).out, Val(args.dep_city), Val(args.arr_city),
              args.max_stops, args.min_transfer)

\* C2: the returned list has no two itineraries with the same route-id tuple; every
\* enumerated tuple is represented, by the first itinerary enumerated with it; and the
\* kept itineraries are in enumeration order.
C2_Dedup ==
    Found =>
        /\ \A i, j \in 1..Len(ret) : i # j => RouteIds(ret[i]) # RouteIds(ret[j])
        /\ \A e \in 1..Len(Enumerated) :
              \E n \in 1..Len(ret) : RouteIds(ret[n]) = RouteIds(Enumerated[e])
        /\ \A n \in 1..Len(ret) :
              /\ \E e \in 1..Len(Enumerated) : RouteIds(Enumerated[e]) = RouteIds(ret[n])
              /\ ret[n] = Enumerated[FirstWith(Enumerated, RouteIds(ret[n]))]
        /\ \A n, m \in 1..Len(ret) :
              n < m => FirstWith(Enumerated, RouteIds(ret[n]))
                         < FirstWith(Enumerated, RouteIds(ret[m]))

\* C2 witness: two different rows with the same route id were both enumerated as
\* direct itineraries, and one itinerary with that id was returned.
C2_Witness ==
    /\ Found
    /\ \E a, b \in 1..Len(Enumerated) :
          /\ a < b
          /\ RouteIds(Enumerated[a]) = RouteIds(Enumerated[b])
          /\ Enumerated[a] # Enumerated[b]
    /\ Len(ret) < Len(Enumerated)

\* C8: minutes_between(t1, t2) is (t2 - t1) modulo 1440, within 0..1439 and 0 for
\* equal times; a route's duration is minutes_between(departure, arrival), 120 for
\* 23:00 to 01:00.
C8_MinutesBetween ==
    /\ op = "minutes_between" =>
          /\ ret = (args.t2 - args.t1) % 1440
          /\ ret \in 0..1439
          /\ (args.t1 = args.t2 => ret = 0)
    /\ op = "duration" =>
          /\ ret = minutes_between(args.t1, args.t2)
          /\ ret = (args.t2 - args.t1) % 1440
          /\ (args.t1 = HM(23, 0) /\ args.t2 = HM(1, 0) => ret = 120)

\* C8 witness: the duration of a 23:00 to 01:00 route was computed.
C8_Witness == op = "duration" /\ args.t1 = HM(23, 0) /\ args.t2 = HM(1, 0) /\ ret = 120

\* C3: the list search_itineraries returns is ascending in the configured key:
\* (duration, fare) under sort_by = "duration", (fare, duration) under "price",
\* the fare being that of the class the search was called with.
C3_Sorted ==
    Searched =>
        \A k \in 1..(Len(ret) - 1) :
            LET aDur == Itinerary_duration_minutes(ret[k])
                bDur == Itinerary_duration_minutes(ret[k + 1])
                aFare == Itinerary_price(ret[k], args.cls)
                bFare == Itinerary_price(ret[k + 1], args.cls)
            IN  /\ args.sort_by = "duration" =>
                      aDur < bDur \/ (aDur = bDur /\ aFare <= bFare)
                /\ args.sort_by = "price" =>
                      aFare < bFare \/ (aFare = bFare /\ aDur <= bDur)

\* C3 witness: a price-sorted result in which the cheaper itinerary is the longer one.
C3_Witness ==
    /\ Searched
    /\ args.sort_by = "price"
    /\ \E k \in 1..(Len(ret) - 1) :
          /\ Itinerary_price(ret[k], args.cls) < Itinerary_price(ret[k + 1], args.cls)
          /\ Itinerary_duration_minutes(ret[k]) > Itinerary_duration_minutes(ret[k + 1])

\* The two strings are equal up to the case of their letters.
SameCity(a, b) == Lower(a) = Lower(b)

\* The route-id tuples of every feasible chain of at most max_stops + 1 filtered routes
\* from the origin to the destination, stated directly over the filtered routes.
FeasibleChainIds ==
    LET F == filter_routes(routes0, args.kw).out
        FSet == {F[i] : i \in 1..Len(F)}
        Chains(n) ==
            {c \in [1..n -> FSet] :
                /\ SameCity(c[1].dep_city, Val(args.dep_city))
                /\ SameCity(c[n].arr_city, Val(args.arr_city))
                /\ \A i \in 1..(n - 1) :
                      /\ SameCity(c[i + 1].dep_city, c[i].arr_city)
                      /\ Arc(c[i].arr_time, c[i + 1].dep_time) >= args.min_transfer}
    IN  UNION {{[i \in 1..n |-> c[i].route_id] : c \in Chains(n)} :
                  n \in 1..(args.max_stops + 1)}

C4_WitnessFiltered ==
    /\ Found
    /\ ret # <<>>
    /\ Len(filter_routes(routes0, args.kw).out) < Len(routes0)

\* A window bound counts as supplied when it is a non-empty string.
Supplied(b) == TruthyStr(b)

\* C5: with both bounds of a window supplied, a route that passes the other
\* constraints is kept exactly when the forward distance from `from` to its time is
\* at most that from `from` to `to`; with one bound missing the window drops nothing.
C5_Windows ==
    Filtered =>
        LET kw == args.kw
            depBoth == Supplied(kw.dep_time_from) /\ Supplied(kw.dep_time_to)
            arrBoth == Supplied(kw.arr_time_from) /\ Supplied(kw.arr_time_to)
            noDep == filter_routes(routes0, [kw EXCEPT !.dep_time_from = None,
                                                        !.dep_time_to = None]).out
            noArr == filter_routes(routes0, [kw EXCEPT !.arr_time_from = None,
                                                        !.arr_time_to = None]).out
            df == parse_time(Val(kw.dep_time_from)).val
            dt == parse_time(Val(kw.dep_time_to)).val
            af == parse_time(Val(kw.arr_time_from)).val
            at == parse_time(Val(kw.arr_time_to)).val
        IN  /\ depBoth => ret = SelectSeq(noDep, LAMBDA r : Arc(df, r.dep_time) <= Arc(df, dt))
            /\ ~depBoth => ret = noDep
            /\ arrBoth => ret = SelectSeq(noArr, LAMBDA r : Arc(af, r.arr_time) <= Arc(af, at))
            /\ ~arrBoth => ret = noArr

\* C5 witness: a departure window from 22:00 to 10:10 kept a route and dropped one.
C5_Witness ==
    /\ Filtered
    /\ args.kw.dep_time_from = Some(b_2200) /\ args.kw.dep_time_to = Some(b_1010)
    /\ ret # <<>>
    /\ Len(ret) < Len(routes)

\* C5 witness of the one-sided window: only `from` was supplied, later than some
\* route's departure, and every route was kept.
C5_WitnessOneSided ==
    /\ Filtered
    /\ args.kw = [NoKw EXCEPT !.dep_time_from = Some(b_900)]
    /\ \E i \in 1..Len(routes) : routes[i].dep_time < HM(9, 0)
    /\ ret = routes

\* The invocation at hand is one of the calls that take a constraint set.
Invoked == op \in {"filter", "find", "search"}

\* Some supplied time-window bound of the constraint set is not a time parse_time reads.
BadBound(kw) ==
    \E b \in {kw.dep_time_from, kw.dep_time_to, kw.arr_time_from, kw.arr_time_to} :
        Supplied(b) /\ ~parse_time(Val(b)).ok

\* Some requested day token is no key of DAY_ALIASES once trimmed and lower-cased.
UnknownDay(kw) ==
    /\ TruthyList(kw.days)
    /\ \E i \in 1..Len(Val(kw.days)) : ~IsDayAlias(Lower(Strip(Val(kw.days)[i])))

\* The routes the result at hand is made of.
ResultRoutes ==
    IF op = "filter" THEN {ret[i] : i \in 1..Len(ret)}
    ELSE UNION {{ret[n].legs[i] : i \in 1..Len(ret[n].legs)} : n \in 1..Len(ret)}

\* C6 as stated: a call given an unparseable time-window bound or an unknown day
\* token fails with an error and returns no list.
C6_InvalidConstraintFails ==
    (Invoked /\ (BadBound(args.kw) \/ UnknownDay(args.kw))) => (raised /\ ret = <<>>)

\* C6 as amended: a call fails, returning nothing, exactly when a supplied time-window
\* bound is unparseable; a day token that is no alias raises nothing: trimmed and
\* title-cased it is used as a day code, so every route of the result operates on one
\* of the requested codes.
C6_BadBoundFailsUnknownDayIsUsed ==
    Invoked =>
        /\ BadBound(args.kw) => (raised /\ ret = <<>>)
        /\ ~BadBound(args.kw) => ~raised
        /\ (~BadBound(args.kw) /\ TruthyList(args.kw.days)) =>
              LET toks == Val(args.kw.days)
                  Code(d) == IF IsDayAlias(Lower(Strip(d)))
                             THEN DayAliasGet(Lower(Strip(d)), <<>>)
                             ELSE Title(Strip(d))
                  codes == {Code(toks[i]) : i \in 1..Len(toks)}
              IN  /\ \A r \in ResultRoutes : r.days \cap codes # {}
                  /\ op = "filter" =>
                        \A i \in 1..Len(routes0) :
                            routes0[i].days \cap codes # {} => routes0[i] \in ResultRoutes

\* C6 witness: the token "fun", no alias, was accepted and selected the route that
\* operates on "Fun".
C6_Witness ==
    /\ op = "filter"
    /\ UnknownDay(args.kw)
    /\ ~raised
    /\ ret # <<>>

\* C6 witness of the failure: a call with an unparseable bound raised.
C6_WitnessRaised ==
    /\ op = "search"
    /\ BadBound(args.kw)
    /\ routes # <<>>
    /\ raised

\* C7: with everything else fixed, a larger min_transfer never returns more
\* itineraries (counted after deduplication) than the invocation at hand did.
C7_Monotone ==
    Found =>
        \A m \in MinTransfers :
            m >= args.min_transfer =>
                Len(find_connected_itineraries(routes0, Val(args.dep_city), Val(args.arr_city),
                                               args.max_stops, m, args.kw).out) <= Len(ret)

\* C7 witness: some larger min_transfer returns strictly fewer itineraries.
C7_Witness ==
    /\ Found
    /\ \E m \in MinTransfers :
          /\ m > args.min_transfer
          /\ Len(find_connected_itineraries(routes0, Val(args.dep_city), Val(args.arr_city),
                                            args.max_stops, m, args.kw).out) < Len(ret)

\* C9: for every itinerary the search returns, the duration it was ranked by is the
\* sum of its legs' durations plus the sum of its transfers, and the fare it was
\* ranked by is the sum of the chosen class's fares over its legs; Paris->Lyon
\* 08:00-10:00 then Lyon->Nice 10:30-13:00 has transfer 30 and total duration 300.
C9_Totals ==
    Searched =>
        /\ Len(keys) = Len(ret)
        /\ \A n \in 1..Len(ret) :
            LET it == ret[n]
                legDur == [i \in 1..Len(it.legs) |-> Arc(it.legs[i].dep_time, it.legs[i].arr_time)]
                first == args.cls \in {s_first, <<"F","i","r","s","t">>}
                fares == [i \in 1..Len(it.legs) |->
                            IF first THEN it.legs[i].price_first ELSE it.legs[i].price_second]
                total == SumSeq(legDur) + SumSeq(it.transfers_minutes)
                rankedDur == IF args.sort_by = "price" THEN keys[n][2] ELSE keys[n][1]
                rankedFare == IF args.sort_by = "price" THEN keys[n][1] ELSE keys[n][2]
            IN  /\ rankedDur = total
                /\ rankedFare = SumSeq(fares)
                /\ it.legs = <<RoutePool[1], RoutePool[2]>> =>
                      (it.transfers_minutes = <<30>> /\ rankedDur = 300)

\* C9 witness: the scenario's two-leg itinerary was returned, ranked at 300 minutes.
C9_Witness ==
    /\ Searched
    /\ args.sort_by = "duration"
    /\ \E n \in 1..Len(ret) :
          /\ ret[n].legs = <<RoutePool[1], RoutePool[2]>>
          /\ keys[n][1] = 300

\* C10: whatever invocations ran before, the route collection is the one that was
\* loaded, and the result at hand is what the same call returns on the collection as
\* loaded.
C10_CollectionUnchanged ==
    /\ routes = routes0
    /\ op = "filter" =>
          [raised |-> raised, out |-> ret] = filter_routes(routes0, args.kw)
    /\ op = "find" =>
          [raised |-> raised, out |-> ret]
             = find_connected_itineraries(routes0, Val(args.dep_city), Val(args.arr_city),
                                          args.max_stops, args.min_transfer, args.kw)

\* C10 witness: a connection search whose filter dropped a route of the collection
\* returned itineraries, and the collection still has every route.
C10_Witness ==
    /\ op = "find"
    /\ ret # <<>>
    /\ Len(filter_routes(routes0, args.kw).out) < Len(routes0)
    /\ routes = routes0

\* The whole list search_itineraries had sorted before it applied the cap: what the
\* connection search returns for the call at hand, deduplicated, in sorted order.
FullRanking ==
    SortedBy(find_connected_itineraries(routes0, OrEmpty(args.dep_city),
                                        OrEmpty(args.arr_city), args.max_stops,
                                        args.min_transfer, args.kw).out,
             args.cls, args.sort_by)

\* C11: with a cap N >= 0, search_itineraries returns the first min(N, total)
\* itineraries of the sorted, deduplicated list, in the same order; with no cap it
\* returns the whole sorted list.
C11_Cap ==
    Searched =>
        LET total == Len(FullRanking)
        IN  IF IsNone(args.limit)
            THEN ret = FullRanking
            ELSE Val(args.limit) >= 0 =>
                    LET n == IF Val(args.limit) < total THEN Val(args.limit) ELSE total
                    IN  /\ Len(ret) = n
                        /\ \A k \in 1..n : ret[k] = FullRanking[k]

\* C11 witness: a cap of 1 cut a sorted list of two itineraries to its first.
C11_Witness ==
    /\ Searched
    /\ args.limit = Some(1)
    /\ Len(FullRanking) = 2
    /\ ret = <<FullRanking[1]>>

\* C11 witness of the other cases: a cap of 0 returned nothing of a non-empty list, a
\* cap above the total returned the whole list, and so did no cap.
C11_WitnessZero == Searched /\ args.limit = Some(0) /\ FullRanking # <<>> /\ ret = <<>>
C11_WitnessAbove == Searched /\ args.limit = Some(50) /\ Len(ret) = 2
C11_WitnessNone == Searched /\ IsNone(args.limit) /\ Len(ret) = 2

C12_Witness ==
    /\ Found
    /\ \E n \in 1..Len(ret) : Len(ret[n].legs) = 1
    /\ \E n \in 1..Len(ret) : Len(ret[n].legs) = 2
FilteredRoutes == filter_routes(routes0, args.kw).out

\* The connection search was asked for the direct itineraries from a city to itself.
SameCityDirect ==
    /\ Found
    /\ args.dep_city = args.arr_city
    /\ args.max_stops = 0

\* C13 as stated: when the origin equals the destination, a search with max_stops = 0
\* returns no itinerary, whatever the route collection.
C13_SameCityNothing == SameCityDirect => ret = <<>>

\* C13 as amended: when the origin equals the destination, a search with max_stops = 0
\* returns single-leg itineraries only, each of a filtered route that departs from and
\* arrives in that city, one for every route id such routes carry; it returns none
\* when no filtered route departs from and arrives in that city.
C13_SameCityOnlyCircular ==
    SameCityDirect =>
        LET F == FilteredRoutes
            city == Val(args.dep_city)
            Circ == {i \in 1..Len(F) : SameCity(F[i].dep_city, city)
                                        /\ SameCity(F[i].arr_city, city)}
        IN  /\ \A n \in 1..Len(ret) :
                  /\ ret[n].transfers_minutes = <<>>
                  /\ \E i \in Circ : ret[n].legs = <<F[i]>>
            /\ \A i \in Circ : \E n \in 1..Len(ret) : RouteIds(ret[n]) = <<F[i].route_id>>
            /\ Circ = {} => ret = <<>>

\* C13 witness: the circular service was returned as the direct itinerary from Nice
\* to Nice.
C13_Witness ==
    /\ SameCityDirect
    /\ ret = <<Itinerary(<<NightPool[4]>>, <<>>)>>

\* C13 witness of the empty case: routes were loaded, none of those the filter let
\* through is circular, and the search from Nice to Nice returned nothing.
C13_WitnessNothing ==
    /\ SameCityDirect
    /\ FilteredRoutes # <<>>
    /\ ret = <<>>

\* The next leg departs at an earlier clock time than the previous leg arrives.
CrossesMidnight(prev, next) == next.dep_time < prev.arr_time

C14_WitnessTwoStop ==
    /\ Found
    /\ args.max_stops = 2
    /\ \E n \in 1..Len(ret) :
          ret[n] = Itinerary(<<NightPool[1], NightPool[2], NightPool[3]>>, <<1350, 1380>>)

\* C14 witness of the threshold: the same three routes are loaded and the two-stop
\* search at a minimum transfer of 1360 - above the first overnight wait of 1350 -
\* returned nothing from Metz.
C14_WitnessBelowMinimum ==
    /\ Found
    /\ routes = <<NightPool[1], NightPool[2], NightPool[3]>>
    /\ args.dep_city = Some(s_metz) /\ args.max_stops = 2 /\ args.min_transfer = 1360
    /\ args.kw = NoKw
    /\ ret = <<>>

=============================================================================
